---- MODULE Spec2Model ----
(***************************************************************************)
(* Model of src/Project/script.js: the cart kept in one localStorage slot, *)
(* the cart operations, the cart view and badge they render, the drawers,  *)
(* the order acknowledgment and its timers, the search and category       *)
(* filter of the home page.                                                *)
(*                                                                         *)
(* Conventions                                                             *)
(*   - A dataset attribute is [def, s]: def = FALSE is JavaScript's        *)
(*     undefined (attribute missing), s its text otherwise.                *)
(*   - The price attribute is [def, chars]: its text as a sequence of      *)
(*     characters, so that parseFloat is computed, not looked up.          *)
(*   - A JavaScript number is [k, v]: k = "num" with v in hundredths (the  *)
(*     prices used are exact in binary floating point, so the sums the     *)
(*     code computes are exact), "inf" with v = 1 or -1, "nan", or "null"  *)
(*     for the JSON null a non-finite number is serialised to.             *)
(*   - The localStorage slot is [kind, items]: "absent" (getItem returns   *)
(*     null), "empty" (the empty string), "malformed" (JSON.parse throws), *)
(*     "null", "number", "object" (JSON text of that type) or "array" with *)
(*     the serialised line items.                                          *)
(*   - localStorage itself is available and setItem succeeds (no quota     *)
(*     failure); all page elements the script looks up exist.              *)
(*   - A handler that throws stops where it throws: what it did before     *)
(*     stays done.  The environment record threaded through the operators  *)
(*     carries the flag `threw`.                                           *)
(*   - A string of the filter engine is the sequence of its characters.    *)
(*     The home page is the page whose title holds 'Wrist Aura | Luxury    *)
(*     Timepieces'; it has the product grid, the featured-collections      *)
(*     heading and the filter buttons, each button with a data-category.   *)
(***************************************************************************)
EXTENDS Integers, Sequences, FiniteSets, TLC

VARIABLES
    store,        \* content of localStorage[CART_STORAGE_KEY]
    view,         \* #cartItemsContainer: the rows rendered by renderCart
    emptyShown,   \* #cartEmptyState is displayed
    badge,        \* #cartBadge, #cartSubtotal, #checkoutButton as last written
    cartOpen,     \* #cartDrawer has class open
    profileOpen,  \* #profileDrawer has class open
    searchActive, \* #searchBarContainer has class active
    backdrop,     \* #profileDrawerBackdrop has class visible
    scrollLock,   \* document.body.style.overflow = 'hidden'
    modal,        \* #orderPlacedModal has class show
    timers,       \* number of pending 3 s hide-acknowledgment timers
    loaded,       \* the DOMContentLoaded listener has run
    wired,        \* the DOMContentLoaded listener reached its addEventListener calls
    last,         \* the callback that ran last, its arguments and how it ended
    isHome,       \* document.title includes 'Wrist Aura | Luxury Timepieces'
    param,        \* the `search` parameter of window.location.search
    sent,         \* the query performSearch navigated here with, if it did
    cards,        \* the data attributes of the product cards of the home page
    filterState,  \* filterState: searchQuery and category
    display,      \* per product card: style.display = 'block' (not 'none')
    foundCount,   \* foundCount of the last applyFilters
    message       \* #search-result-message as last written

\* the variables of the filter engine
fvars == <<isHome, param, sent, cards, filterState, display, foundCount, message>>

vars == <<store, view, emptyShown, badge, cartOpen, profileOpen, searchActive,
          backdrop, scrollLock, modal, timers, loaded, wired, last, fvars>>

-----------------------------------------------------------------------------
(* Bounds *)

\* addToCart is not taken on an item that already has this quantity
MaxQty == 2
\* placeOrder is not taken while this many hide timers are pending
MaxTimers == 2

-----------------------------------------------------------------------------
(* JavaScript values *)

Num(v) == [k |-> "num", v |-> v]
Inf(sign) == [k |-> "inf", v |-> sign]
NaN == [k |-> "nan", v |-> 0]
Null == [k |-> "null", v |-> 0]

Undefined == [def |-> FALSE, s |-> ""]
Str(s) == [def |-> TRUE, s |-> s]

\* !x for a dataset attribute: undefined and "" are falsy
Falsy(a) == ~a.def \/ a.s = ""

Digits == {"0", "1", "2", "3", "4", "5", "6", "7", "8", "9"}

DigitValue(c) ==
    CASE c = "0" -> 0 [] c = "1" -> 1 [] c = "2" -> 2 [] c = "3" -> 3
      [] c = "4" -> 4 [] c = "5" -> 5 [] c = "6" -> 6 [] c = "7" -> 7
      [] c = "8" -> 8 [] c = "9" -> 9

RECURSIVE DigitPrefix(_)
\* the longest prefix of chars made of decimal digits
DigitPrefix(chars) ==
    IF chars = <<>> \/ chars[1] \notin Digits THEN <<>>
    ELSE <<chars[1]>> \o DigitPrefix(Tail(chars))

RECURSIVE IntValue(_)
IntValue(ds) ==
    IF ds = <<>> THEN 0
    ELSE IntValue(SubSeq(ds, 1, Len(ds) - 1)) * 10 + DigitValue(ds[Len(ds)])

\* the fraction digits in hundredths (prices carry at most two decimals)
FracHundredths(ds) ==
    (IF Len(ds) >= 1 THEN DigitValue(ds[1]) * 10 ELSE 0)
    + (IF Len(ds) >= 2 THEN DigitValue(ds[2]) ELSE 0)

\* parseFloat(button.dataset.productPrice): optional sign, then "Infinity" or
\* the longest decimal literal the text starts with; NaN when there is none.
\* parseFloat(undefined) parses the text "undefined": NaN.
parseFloat(attr) ==
    IF ~attr.def THEN NaN
    ELSE
    LET chars == attr.chars
        signed == chars # <<>> /\ chars[1] \in {"-", "+"}
        sign == IF signed /\ chars[1] = "-" THEN -1 ELSE 1
        rest == IF signed THEN Tail(chars) ELSE chars
        ip == DigitPrefix(rest)
        afterInt == SubSeq(rest, Len(ip) + 1, Len(rest))
        hasDot == afterInt # <<>> /\ afterInt[1] = "."
        fp == IF hasDot THEN DigitPrefix(Tail(afterInt)) ELSE <<>>
    IN  IF rest # <<>> /\ rest[1] = "Infinity" THEN Inf(sign)
        ELSE IF ip = <<>> /\ fp = <<>> THEN NaN
        ELSE Num(sign * (IntValue(ip) * 100 + FracHundredths(fp)))

isNaN(x) == x.k = "nan"

\* Number(x) * q as reduce uses it on a parsed item: Number(null) is 0
Times(x, q) == IF x.k = "num" THEN x.v * q ELSE 0

-----------------------------------------------------------------------------
(* Cart storage *)

Absent == [kind |-> "absent", items |-> <<>>]

\* JSON.stringify of a number: a non-finite number is written as null
stringifyNumber(x) == IF x.k = "num" THEN x ELSE Null

stringifyItem(item) == [item EXCEPT !.price = stringifyNumber(item.price)]

\* JSON.stringify(cart) for an array of line items
JSONstringify(cart) ==
    [kind |-> "array", items |-> [i \in 1..Len(cart) |-> stringifyItem(cart[i])]]

\* JSON.parse(cartJson): the value the text denotes, or a SyntaxError
JSONparse(text) ==
    IF text.kind = "malformed" THEN [threw |-> TRUE, t |-> "undefined", items |-> <<>>]
    ELSE [threw |-> FALSE, t |-> text.kind, items |-> text.items]

\* getCart(): the JavaScript value it returns, [t, items] with t the type
getCart(slot) ==
    IF slot.kind \in {"absent", "empty"} THEN [t |-> "array", items |-> <<>>]
    ELSE LET r == JSONparse(slot)
         IN  IF r.threw THEN [t |-> "array", items |-> <<>>]
             ELSE [t |-> r.t, items |-> r.items]

\* saveCart(cart): the slot after localStorage.setItem
saveCart(cart) == JSONstringify(cart)

-----------------------------------------------------------------------------
(* The environment a handler runs in: the slot, the page, and whether the   *)
(* handler has thrown.  rendered records that renderCart emptied the view.  *)

\* saved: the array the handler passed to saveCart, if it called it
NotSaved == [called |-> FALSE, cart |-> <<>>]

Env ==
    [store |-> store, view |-> view, emptyShown |-> emptyShown, badge |-> badge,
     cartOpen |-> cartOpen, profileOpen |-> profileOpen,
     searchActive |-> searchActive, backdrop |-> backdrop,
     scrollLock |-> scrollLock, modal |-> modal, timers |-> timers,
     threw |-> FALSE, rendered |-> FALSE, saved |-> NotSaved]

Throw(E) == [E EXCEPT !.threw = TRUE]

\* findIndex with a predicate that never matches
findIndex_neverFound(items, id) == 0

\* cart.findIndex(item => item.id === id): 0 stands for JavaScript's -1
findIndex(items, id) ==
    IF \E i \in 1..Len(items) : items[i].id = id
    THEN CHOOSE i \in 1..Len(items) :
            items[i].id = id /\ \A j \in 1..(i - 1) : items[j].id # id
    ELSE 0

\* filter with === for !==: keeps the item it should drop
filterOut_keepsMatch(items, id) == SelectSeq(items, LAMBDA item : item.id = id)

\* cart.filter(item => item.id !== id)
filterOut(items, id) == SelectSeq(items, LAMBDA item : item.id # id)

\* removal that moves the last item into the gap
splice_swapsLast(items, index) ==
    IF index = Len(items) THEN SubSeq(items, 1, Len(items) - 1)
    ELSE [i \in 1..(Len(items) - 1) |->
            IF i = index THEN items[Len(items)] ELSE items[i]]

\* cart.splice(index, 1)
splice(items, index) ==
    SubSeq(items, 1, index - 1) \o SubSeq(items, index + 1, Len(items))

RECURSIVE reduceQuantity(_, _)
\* cart.reduce((sum, item) => sum + item.quantity, 0), from the left
reduceQuantity(items, sum) ==
    IF items = <<>> THEN sum
    ELSE reduceQuantity(Tail(items), sum + Head(items).quantity)

RECURSIVE reduceSubtotal(_, _)
\* cart.reduce((sum, item) => sum + (item.price * item.quantity), 0)
reduceSubtotal(items, sum) ==
    IF items = <<>> THEN sum
    ELSE reduceSubtotal(Tail(items),
                        sum + Times(Head(items).price, Head(items).quantity))

\* the row renderCart inserts for an item; price is item.price.toFixed(2)
Row(item) == [id |-> item.id, quantity |-> item.quantity, price |-> item.price.v]

\* item.price.toFixed(2) throws a TypeError when the price is null
RowThrows(item) == item.price.k = "null"

\* the rows cart.forEach inserts before it ends or an item throws
RECURSIVE RowsUntilThrow(_)
RowsUntilThrow(items) ==
    IF items = <<>> \/ RowThrows(Head(items)) THEN <<>>
    ELSE <<Row(Head(items))>> \o RowsUntilThrow(Tail(items))

renderCart(E) ==
    IF E.threw THEN E
    ELSE
    LET cart == getCart(E.store)
        cleared == [E EXCEPT !.view = <<>>, !.rendered = TRUE]
    IN  CASE cart.t = "null" -> Throw(cleared)                 \* cart.length of null
          [] cart.t \in {"number", "object"} ->                \* cart.forEach is not a function
                Throw([cleared EXCEPT !.emptyShown = FALSE])
          [] cart.t = "array" /\ cart.items = <<>> ->
                [cleared EXCEPT !.emptyShown = TRUE]
          [] OTHER ->
                LET drawn == [cleared EXCEPT !.emptyShown = FALSE,
                                             !.view = RowsUntilThrow(cart.items)]
                IN  IF \E i \in 1..Len(cart.items) : RowThrows(cart.items[i])
                    THEN Throw(drawn) ELSE drawn

\* the badge text is '99+' above 99 (capped); display is 'flex' or 'none'
BadgeFor(totalItems, subtotal) ==
    [totalItems |-> totalItems, capped |-> totalItems > 99,
     display |-> totalItems > 0, subtotal |-> subtotal,
     disabled |-> totalItems = 0]

updateCartBadge(E) ==
    IF E.threw THEN E
    ELSE
    LET cart == getCart(E.store)
    IN  IF cart.t # "array" THEN Throw(E)                      \* cart.reduce
        ELSE [E EXCEPT !.badge = BadgeFor(reduceQuantity(cart.items, 0),
                                          reduceSubtotal(cart.items, 0))]

\* the else branches (show is false) call nothing further; they come first so
\* that the three toggles need no recursion

\* toggleProfileDrawer(false)
closeProfileDrawer(E) ==
    IF E.threw THEN E
    ELSE LET e1 == [E EXCEPT !.profileOpen = FALSE]
         IN  IF ~e1.cartOpen
             THEN [e1 EXCEPT !.backdrop = FALSE, !.scrollLock = FALSE]
             ELSE e1

\* toggleCartDrawer(false) without the test of the profile drawer
closeCartDrawer_dropsBackdrop(E) ==
    IF E.threw THEN E
    ELSE [E EXCEPT !.cartOpen = FALSE, !.backdrop = FALSE, !.scrollLock = FALSE]

\* toggleCartDrawer(false)
closeCartDrawer(E) ==
    IF E.threw THEN E
    ELSE LET e1 == [E EXCEPT !.cartOpen = FALSE]
         IN  IF ~e1.profileOpen
             THEN [e1 EXCEPT !.backdrop = FALSE, !.scrollLock = FALSE]
             ELSE e1

\* toggleSearchBar(false)
closeSearchBar(E) ==
    IF E.threw THEN E ELSE [E EXCEPT !.searchActive = FALSE]

toggleProfileDrawer(E, show) ==
    IF E.threw THEN E
    ELSE IF show THEN
        LET e1 == [E EXCEPT !.profileOpen = TRUE, !.backdrop = TRUE,
                            !.scrollLock = TRUE]
            e2 == IF e1.cartOpen THEN closeCartDrawer(e1) ELSE e1
        IN  IF e2.searchActive THEN closeSearchBar(e2) ELSE e2
    ELSE closeProfileDrawer(E)

toggleCartDrawer(E, show) ==
    IF E.threw THEN E
    ELSE IF show THEN
        LET e1 == updateCartBadge(renderCart(E))
            e2 == [e1 EXCEPT !.cartOpen = TRUE, !.backdrop = TRUE,
                             !.scrollLock = TRUE]
            e3 == IF e2.profileOpen THEN closeProfileDrawer(e2) ELSE e2
        IN  IF e1.threw THEN e1
            ELSE IF e3.searchActive THEN closeSearchBar(e3) ELSE e3
    ELSE closeCartDrawer(E)

\* the focus timer of line 347 changes nothing modelled here
toggleSearchBar(E, show) ==
    IF E.threw THEN E
    ELSE IF show THEN
        closeCartDrawer(closeProfileDrawer([E EXCEPT !.searchActive = TRUE]))
    ELSE closeSearchBar(E)

-----------------------------------------------------------------------------
(* Handlers *)

\* localStorage.setItem(CART_STORAGE_KEY, JSON.stringify(cart)) inside a handler
save(E, cart) ==
    [E EXCEPT !.store = saveCart(cart), !.saved = [called |-> TRUE, cart |-> cart]]

\* quantity = 1 for quantity += 1
incrementQuantity_assigns(items, index) == [items EXCEPT ![index].quantity = 1]

\* cart[existingItemIndex].quantity += 1
incrementQuantity(items, index) == [items EXCEPT ![index].quantity = @ + 1]

\* the guard without its name test
validData_noNameTest(id, name, price) == ~(Falsy(id) \/ isNaN(price))

\* the guard of line 46: the data addToCart accepts
validData(id, name, price) == ~(Falsy(id) \/ Falsy(name) \/ isNaN(price))

\* target: "addBtn" inside an .add-to-cart-btn, "dataEl" inside another element
\* with data-product-id, "none" inside neither
addToCart(E, target, id, name, priceAttr, image) ==
    LET price == parseFloat(priceAttr)
        cart == getCart(E.store)
        existingItemIndex == findIndex(cart.items, id.s)
        newCart ==
            IF existingItemIndex > 0
            THEN incrementQuantity(cart.items, existingItemIndex)
            ELSE Append(cart.items,
                        [id |-> id.s, name |-> name.s, price |-> price,
                         image |-> image, quantity |-> 1])
        e1 == updateCartBadge(renderCart(save(E, newCart)))
    IN  IF target = "none" THEN E
        ELSE IF ~validData(id, name, price) THEN E
        ELSE IF cart.t # "array" THEN Throw(E)                 \* cart.findIndex
        ELSE IF target = "addBtn" THEN toggleCartDrawer(e1, TRUE)
        ELSE e1

removeFromCart(E, id) ==
    LET cart == getCart(E.store)
    IN  IF cart.t # "array" THEN Throw(E)                      \* cart.filter
        ELSE updateCartBadge(renderCart(save(E, filterOut(cart.items, id))))

\* < 0 for <= 0
reachedZero_belowOnly(quantity) == quantity < 0

\* the test of line 86
reachedZero(quantity) == quantity <= 0

decrementQuantity(E, id) ==
    LET cart == getCart(E.store)
        existingItemIndex == findIndex(cart.items, id)
        lowered == [cart.items EXCEPT ![existingItemIndex].quantity = @ - 1]
        newCart == IF reachedZero(lowered[existingItemIndex].quantity)
                   THEN splice(lowered, existingItemIndex)
                   ELSE lowered
    IN  IF cart.t # "array" THEN Throw(E)                      \* cart.findIndex
        ELSE IF existingItemIndex > 0
        THEN updateCartBadge(renderCart(save(E, newCart)))
        ELSE E

\* placeOrder without its removeItem call
removeItem_skipped(E) == E

\* localStorage.removeItem(CART_STORAGE_KEY)
removeItem(E) == [E EXCEPT !.store = Absent]

\* cart.length of a number or an object is undefined, which is not 0
placeOrder(E) ==
    LET cart == getCart(E.store)
        e1 == toggleCartDrawer(E, FALSE)
        e2 == removeItem([e1 EXCEPT !.modal = TRUE])
        e3 == updateCartBadge(renderCart(e2))
    IN  IF cart.t = "null" THEN Throw(E)                       \* cart.length of null
        ELSE IF cart.t = "array" /\ Len(cart.items) = 0 THEN E
        ELSE IF e3.threw THEN e3
        ELSE [e3 EXCEPT !.timers = @ + 1]

\* a timer callback that leaves the acknowledgment shown
hideModal_keepsShown(E) == [E EXCEPT !.timers = @ - 1]

\* the callback of the 3 s timer of placeOrder
hideModal(E) == [E EXCEPT !.modal = FALSE, !.timers = @ - 1]

\* the keydown listener, for the Escape key
onEscape(E) ==
    LET e1 == IF E.profileOpen THEN toggleProfileDrawer(E, FALSE) ELSE E
        e2 == IF e1.cartOpen THEN toggleCartDrawer(e1, FALSE) ELSE e1
        e3 == IF e2.searchActive THEN toggleSearchBar(e2, FALSE) ELSE e2
    IN  IF e3.modal THEN [e3 EXCEPT !.modal = FALSE] ELSE e3

\* the click listener of the shared backdrop
onBackdropClick(E) == toggleCartDrawer(toggleProfileDrawer(E, FALSE), FALSE)

\* the click listener of the search toggle button
onSearchToggle(E) == toggleSearchBar(E, ~E.searchActive)

-----------------------------------------------------------------------------
(* Text: a string of the filter engine is the sequence of its characters *)

Uppers ==
    <<"A", "B", "C", "D", "E", "F", "G", "H", "I", "J", "K", "L", "M",
      "N", "O", "P", "Q", "R", "S", "T", "U", "V", "W", "X", "Y", "Z">>
Lowers ==
    <<"a", "b", "c", "d", "e", "f", "g", "h", "i", "j", "k", "l", "m",
      "n", "o", "p", "q", "r", "s", "t", "u", "v", "w", "x", "y", "z">>

toLowerCaseChar(c) ==
    IF \E i \in 1..Len(Uppers) : Uppers[i] = c
    THEN Lowers[CHOOSE i \in 1..Len(Uppers) : Uppers[i] = c]
    ELSE c

\* String.prototype.toLowerCase
toLowerCase(chars) == [i \in 1..Len(chars) |-> toLowerCaseChar(chars[i])]

RECURSIVE trimStart(_), trimEnd(_)
trimStart(chars) ==
    IF chars # <<>> /\ chars[1] = " " THEN trimStart(Tail(chars)) ELSE chars
trimEnd(chars) ==
    IF chars # <<>> /\ chars[Len(chars)] = " "
    THEN trimEnd(SubSeq(chars, 1, Len(chars) - 1)) ELSE chars

\* String.prototype.trim
trim(chars) == trimEnd(trimStart(chars))

\* String.prototype.includes
includes(text, q) ==
    \E i \in 0..(Len(text) - Len(q)) : SubSeq(text, i + 1, i + Len(q)) = q

\* the characters encodeURIComponent leaves as they are
Unreserved ==
    {Uppers[i] : i \in 1..Len(Uppers)} \cup {Lowers[i] : i \in 1..Len(Lowers)}
        \cup Digits \cup {"-", "_", ".", "!", "~", "*", "'", "(", ")"}

\* the escape of a character that is not unreserved (those the inputs use)
Escape(c) ==
    CASE c = " " -> <<"%", "2", "0">>
      [] c = "%" -> <<"%", "2", "5">>
      [] c = "&" -> <<"%", "2", "6">>
      [] c = "+" -> <<"%", "2", "B">>

RECURSIVE encodeURIComponent(_)
encodeURIComponent(chars) ==
    IF chars = <<>> THEN <<>>
    ELSE (IF chars[1] \in Unreserved THEN <<chars[1]>> ELSE Escape(chars[1]))
             \o encodeURIComponent(Tail(chars))

HexDigits == Digits \cup {"A", "B", "C", "D", "E", "F", "a", "b", "c", "d", "e", "f"}

\* chars starts with a percent escape: % and two hexadecimal digits
StartsWithEscape(chars) ==
    Len(chars) >= 3 /\ chars[1] = "%" /\ chars[2] \in HexDigits
        /\ chars[3] \in HexDigits

\* the character a percent escape stands for (the escapes the inputs use;
\* "?" stands for every other character)
Unescape(a, b) ==
    CASE a = "2" /\ b = "0" -> " "
      [] a = "2" /\ b = "5" -> "%"
      [] a = "2" /\ b = "6" -> "&"
      [] a = "2" /\ b \in {"B", "b"} -> "+"
      [] a = "4" /\ b = "1" -> "A"
      [] OTHER -> "?"

RECURSIVE paramDecode(_)
\* what URLSearchParams.get returns for a raw value: + is a space, a percent
\* escape is its character, a % that starts no escape stays
paramDecode(raw) ==
    IF raw = <<>> THEN <<>>
    ELSE IF StartsWithEscape(raw)
    THEN <<Unescape(raw[2], raw[3])>> \o paramDecode(SubSeq(raw, 4, Len(raw)))
    ELSE <<IF raw[1] = "+" THEN " " ELSE raw[1]>> \o paramDecode(Tail(raw))

RECURSIVE decodeURIComponent(_)
\* decodeURIComponent: [threw, chars]; a % that starts no escape is a URIError
decodeURIComponent(chars) ==
    IF chars = <<>> THEN [threw |-> FALSE, chars |-> <<>>]
    ELSE IF StartsWithEscape(chars)
    THEN LET rest == decodeURIComponent(SubSeq(chars, 4, Len(chars)))
         IN  [threw |-> rest.threw,
              chars |-> <<Unescape(chars[2], chars[3])>> \o rest.chars]
    ELSE IF chars[1] = "%" THEN [threw |-> TRUE, chars |-> <<>>]
    ELSE LET rest == decodeURIComponent(Tail(chars))
         IN  [threw |-> rest.threw, chars |-> <<chars[1]>> \o rest.chars]

-----------------------------------------------------------------------------
(* The filter engine.  Its handlers work on the record                      *)
(* [searchQuery, category, display, foundCount, message, applied, threw]:   *)
(* filterState, the display of each product card, the count and the summary *)
(* message of the last applyFilters, whether applyFilters ran in this       *)
(* handler, and whether the handler threw.                                  *)

All == <<"a", "l", "l">>

\* const filterState = { searchQuery: '', category: 'all' }
InitialFilterState == [searchQuery |-> <<>>, category |-> All]

\* no #search-result-message element
NoMessage == [template |-> "none", count |-> 0, noResults |-> FALSE]

\* line 234
categoryMatch(category, cardCategory) ==
    category = All \/ cardCategory = category

\* the search test without the keywords
searchMatch_noKeywords(query, card) ==
    \/ query = <<>>
    \/ includes(card.title, query)
    \/ includes(card.category, query)

\* lines 237-240
searchMatch(query, card) ==
    \/ query = <<>>
    \/ includes(card.title, query)
    \/ includes(card.keywords, query)
    \/ includes(card.category, query)

\* the summary message of lines 261-273: which template, with which count,
\* and whether it is the "No results found" wording
messageFor(query, category, found) ==
    IF query # <<>> /\ category = All
    THEN [template |-> "query", count |-> found, noResults |-> ~(found > 0)]
    ELSE IF query = <<>> /\ category # All
    THEN [template |-> "category", count |-> found, noResults |-> FALSE]
    ELSE IF query # <<>> /\ category # All
    THEN [template |-> "both", count |-> found, noResults |-> ~(found > 0)]
    ELSE NoMessage

\* applyFilters(): does nothing on a page without #productGridContainer
applyFilters(F, hasGrid, grid) ==
    IF F.threw \/ ~hasGrid THEN F
    ELSE
    LET shown == [i \in 1..Len(grid) |->
                    categoryMatch(F.category, grid[i].category)
                        /\ searchMatch(F.searchQuery, grid[i])]
        found == Cardinality({i \in 1..Len(grid) : shown[i]})
    IN  [F EXCEPT !.display = shown,
                  !.foundCount = found,
                  !.message = messageFor(F.searchQuery, F.category, found),
                  !.applied = TRUE]

\* filterByCategory(category): category is [def, chars], def = FALSE when the
\* clicked element carries no data-category
filterByCategory(F, category, hasGrid, grid) ==
    IF ~category.def THEN F
    ELSE applyFilters([F EXCEPT !.category = toLowerCase(category.chars)],
                      hasGrid, grid)

\* checkUrlForSearchQuery(): search is the raw value of the `search` parameter,
\* [has, raw]
checkUrlForSearchQuery(F, search, home, grid) ==
    LET query == paramDecode(search.raw)
        decodedQuery == decodeURIComponent(query)
    IN  IF ~(search.has /\ query # <<>> /\ home) THEN F
        ELSE IF decodedQuery.threw THEN [F EXCEPT !.threw = TRUE]
        ELSE applyFilters([F EXCEPT !.searchQuery = toLowerCase(decodedQuery.chars)],
                          home, grid)

-----------------------------------------------------------------------------
(* Inputs *)

Price(chars) == [def |-> TRUE, chars |-> chars]
NoPrice == [def |-> FALSE, chars |-> <<>>]

Dataset(id, name, price, image) ==
    [productId |-> id, productName |-> name, productPrice |-> price,
     productImg |-> image]

\* the data-product-* attributes of the buttons a page may carry: products
\* (two for the same id with different attributes, one with a negative and
\* one with an infinite price)
Products ==
    {Dataset(Str("w1"), Str("Orion"), Price(<<"1", "0">>), Str("orion.png")),
     Dataset(Str("w1"), Str("Orion"), Price(<<"Infinity">>), Str("orion.png")),
     Dataset(Str("w2"), Str("Aura"), Price(<<"5", ".", "5">>), Str("aura.png")),
     Dataset(Str("w2"), Str("Orion"), Price(<<"-", "5">>), Undefined)}

\* buttons whose id or name is missing or empty or whose price is no number
MalformedDatasets ==
    {Dataset(Undefined, Str("Orion"), Price(<<"1", "0">>), Str("orion.png")),
     Dataset(Str(""), Str("X"), Price(<<"a", "b", "c">>), Str("")),
     Dataset(Str("w1"), Undefined, Price(<<"1", "0">>), Str("orion.png")),
     Dataset(Str("w2"), Str(""), Price(<<"5", ".", "5">>), Undefined),
     Dataset(Str("w1"), Str("Orion"), Price(<<"a", "b", "c">>), Str("orion.png")),
     Dataset(Str("w2"), Str("Aura"), NoPrice, Str("aura.png"))}

\* a click outside every button reaches addToCart with no dataset at all
NoData == Dataset(Undefined, Undefined, NoPrice, Undefined)

\* the clicks addToCart may be called for, <<target, dataset>>: a product
\* button inside or outside an .add-to-cart-btn, a malformed .add-to-cart-btn,
\* or no button
Clicks ==
    ({"addBtn", "dataEl"} \X Products)
        \cup ({"addBtn"} \X MalformedDatasets)
        \cup {<<"none", NoData>>}

\* three products with distinct ids, for the order of the line items
ThreeProducts ==
    {Dataset(Str("w1"), Str("Orion"), Price(<<"1", "0">>), Str("orion.png")),
     Dataset(Str("w2"), Str("Aura"), Price(<<"5", ".", "5">>), Str("aura.png")),
     Dataset(Str("w3"), Str("Vega"), Price(<<"7">>), Str("vega.png"))}

OrderClicks == {"addBtn", "dataEl"} \X ThreeProducts

\* the ids the rendered buttons and other callers pass; "w3" is in no
\* dataset of Clicks
Ids == {"w1", "w2", "w3"}

\* the product cards of a home page whose data attributes are lower case,
\* and of one whose data attributes are capitalised
Card(title, keywords, category) ==
    [title |-> title, keywords |-> keywords, category |-> category]
LowerCards ==
    <<Card(<<"o", "r", "i", "o", "n">>, <<"g", "o", "l", "d">>, <<"c", "h", "r", "o", "n", "o">>),
      Card(<<"a", "u", "r", "a">>, <<"s", "l", "i", "m">>, <<"d", "r", "e", "s", "s">>)>>
MixedCards ==
    <<Card(<<"O", "r", "i", "o", "n">>, <<"G", "o", "l", "d">>, <<"C", "h", "r", "o", "n", "o">>),
      Card(<<"a", "u", "r", "a">>, <<"s", "l", "i", "m">>, <<"d", "r", "e", "s", "s">>)>>

\* what the visitor types into #searchInput
Typed ==
    {<<>>, <<" ", "O", "r", "i", "o", "n">>, <<"a", "u">>, <<"g", "o", "l", "d">>, <<"5", "0", "%">>}

\* e.target.dataset.category of a click on a filter button: missing when the
\* click lands on an element without the attribute
NoCategory == [def |-> FALSE, chars |-> <<>>]
Category(chars) == [def |-> TRUE, chars |-> chars]
CategoryClicks ==
    {NoCategory, Category(All), Category(<<"D", "r", "e", "s", "s">>), Category(<<"c", "h", "r", "o", "n", "o">>), Category(<<"s", "p", "o", "r", "t">>)}

\* the `search` parameter of the address the page is opened with
NoParam == [has |-> FALSE, raw |-> <<>>]
Param(raw) == [has |-> TRUE, raw |-> raw]
Params == {NoParam, Param(<<"O", "r", "i", "o", "n">>), Param(<<"%", "2", "0", "o", "r", "i", "o", "n">>)}

NotSent == [by |-> FALSE, q |-> <<>>]

-----------------------------------------------------------------------------
(* Actions: one per callback *)

\* a dataset with an empty or missing id, an empty or missing name, or a
\* price text that parses to NaN
Malformed(d) ==
    \/ ~d.productId.def \/ d.productId.s = ""
    \/ ~d.productName.def \/ d.productName.s = ""
    \/ parseFloat(d.productPrice).k = "nan"

\* what `last` keeps of a callback: its name, its argument (the id passed to
\* removeFromCart and decrementQuantity, the product id addToCart read, ""
\* when it is missing), whether the dataset addToCart read was malformed, and
\* how the handler ended
Ran(op, arg, malformed, E) ==
    [op |-> op, arg |-> arg, malformed |-> malformed,
     threw |-> E.threw, rendered |-> E.rendered, saved |-> E.saved]

Called(op, arg, E) == Ran(op, arg, FALSE, E)

Commit(E, l) ==
    /\ store' = E.store
    /\ view' = E.view
    /\ emptyShown' = E.emptyShown
    /\ badge' = E.badge
    /\ cartOpen' = E.cartOpen
    /\ profileOpen' = E.profileOpen
    /\ searchActive' = E.searchActive
    /\ backdrop' = E.backdrop
    /\ scrollLock' = E.scrollLock
    /\ modal' = E.modal
    /\ timers' = E.timers
    /\ last' = l

\* the filter engine as a handler finds it
FEnv ==
    [searchQuery |-> filterState.searchQuery, category |-> filterState.category,
     display |-> display, foundCount |-> foundCount, message |-> message,
     applied |-> FALSE, threw |-> FALSE]

CommitFilter(F) ==
    /\ filterState' = [searchQuery |-> F.searchQuery, category |-> F.category]
    /\ display' = F.display
    /\ foundCount' = F.foundCount
    /\ message' = F.message
    /\ UNCHANGED <<isHome, param, sent, cards>>

\* what `last` keeps of a filter handler in arg: whether applyFilters ran
Applied(F) == IF F.applied THEN "applied" ELSE ""

\* the DOMContentLoaded listener: checkUrlForSearchQuery(), updateCartBadge(),
\* then the listeners are added; a throw in either leaves them unadded
DOMContentLoaded ==
    /\ ~loaded
    /\ LET F == checkUrlForSearchQuery(FEnv, param, isHome, cards)
           E == IF F.threw THEN Throw(Env) ELSE updateCartBadge(Env)
       IN  /\ Commit(E, Called("DOMContentLoaded", Applied(F), E))
           /\ CommitFilter(F)
           /\ loaded' = TRUE
           /\ wired' = ~E.threw

\* the quantity an add would raise, 0 when the id is not in the cart
QuantityOf(slot, id) ==
    LET cart == getCart(slot)
        i == findIndex(cart.items, id)
    IN  IF i > 0 THEN cart.items[i].quantity ELSE 0

\* addToCart(event) for one of the given clicks
AddToCartFrom(clicks) ==
    /\ loaded
    /\ \E click \in clicks :
        LET target == click[1]
            d == click[2]
            E == addToCart(Env, target, d.productId, d.productName,
                           d.productPrice, d.productImg)
        IN  /\ QuantityOf(store, d.productId.s) < MaxQty
            /\ Commit(E, Ran("addToCart", d.productId.s, Malformed(d), E))
    /\ UNCHANGED <<loaded, wired, fvars>>

DoAddToCart == AddToCartFrom(Clicks)

DoAddOneOfThree == AddToCartFrom(OrderClicks)

DoRemoveFromCart ==
    /\ loaded
    /\ \E id \in Ids :
        LET E == removeFromCart(Env, id)
        IN  Commit(E, Called("removeFromCart", id, E))
    /\ UNCHANGED <<loaded, wired, fvars>>

DoDecrementQuantity ==
    /\ loaded
    /\ \E id \in Ids :
        LET E == decrementQuantity(Env, id)
        IN  Commit(E, Called("decrementQuantity", id, E))
    /\ UNCHANGED <<loaded, wired, fvars>>

DoPlaceOrder ==
    /\ loaded
    /\ timers < MaxTimers
    /\ LET E == placeOrder(Env)
       IN  Commit(E, Called("placeOrder", "", E))
    /\ UNCHANGED <<loaded, wired, fvars>>

TimerFires ==
    /\ timers > 0
    /\ LET E == hideModal(Env)
       IN  Commit(E, Called("timer", "", E))
    /\ UNCHANGED <<loaded, wired, fvars>>

ProfileToggleClick ==
    /\ wired
    /\ \E show \in BOOLEAN :
        LET E == toggleProfileDrawer(Env, show)
        IN  Commit(E, Called("toggleProfileDrawer", "", E))
    /\ UNCHANGED <<loaded, wired, fvars>>

CartToggleClick ==
    /\ wired
    /\ \E show \in BOOLEAN :
        LET E == toggleCartDrawer(Env, show)
        IN  Commit(E, Called("toggleCartDrawer", "", E))
    /\ UNCHANGED <<loaded, wired, fvars>>

SearchToggleClick ==
    /\ wired
    /\ LET E == onSearchToggle(Env)
       IN  Commit(E, Called("toggleSearchBar", "", E))
    /\ UNCHANGED <<loaded, wired, fvars>>

\* window.location.href = `home.html?search=${encodeURIComponent(query)}`:
\* the page is left for the home page, whose script starts afresh; only
\* localStorage stays
Navigate(E, query) ==
    /\ store' = E.store
    /\ view' = <<>>
    /\ emptyShown' \in BOOLEAN
    /\ badge' \in {[BadgeFor(0, 0) EXCEPT !.disabled = d] : d \in BOOLEAN}
    /\ cartOpen' = FALSE
    /\ profileOpen' = FALSE
    /\ searchActive' = FALSE
    /\ backdrop' = FALSE
    /\ scrollLock' = FALSE
    /\ modal' = FALSE
    /\ timers' = 0
    /\ loaded' = FALSE
    /\ wired' = FALSE
    /\ isHome' = TRUE
    /\ param' = Param(encodeURIComponent(query))
    /\ sent' = [by |-> TRUE, q |-> query]
    /\ filterState' = InitialFilterState
    /\ display' = [i \in 1..Len(cards) |-> TRUE]
    /\ foundCount' = 0
    /\ message' = NoMessage
    /\ UNCHANGED cards
    /\ last' = Called("performSearch", "navigated", E)

\* performSearch(), from the search button or the Enter key in #searchInput
DoPerformSearch ==
    /\ wired
    /\ \E value \in Typed :
         LET query == toLowerCase(trim(value))
         IN  IF isHome
             THEN LET F == applyFilters([FEnv EXCEPT !.searchQuery = query],
                                        isHome, cards)
                  IN  /\ Commit(Env, Called("performSearch", Applied(F), Env))
                      /\ CommitFilter(F)
                      /\ UNCHANGED <<loaded, wired>>
             ELSE IF query # <<>>
             THEN Navigate(toggleSearchBar(Env, FALSE), query)
             ELSE /\ Commit(Env, Called("performSearch", "", Env))
                  /\ UNCHANGED <<loaded, wired, fvars>>

\* a click on a filter button (home page only)
DoFilterByCategory ==
    /\ wired
    /\ isHome
    /\ \E category \in CategoryClicks :
         LET F == filterByCategory(FEnv, category, isHome, cards)
         IN  /\ Commit(Env, Called("filterByCategory", Applied(F), Env))
             /\ CommitFilter(F)
    /\ UNCHANGED <<loaded, wired>>

BackdropClick ==
    /\ wired
    /\ LET E == onBackdropClick(Env)
       IN  Commit(E, Called("backdrop", "", E))
    /\ UNCHANGED <<loaded, wired, fvars>>

EscapeKey ==
    /\ wired
    /\ LET E == onEscape(Env)
       IN  Commit(E, Called("escape", "", E))
    /\ UNCHANGED <<loaded, wired, fvars>>

-----------------------------------------------------------------------------
(* Specifications *)

\* the page as the script finds it: nothing open, nothing rendered; what the
\* markup shows in the empty-state element and the checkout button is open
InitPage ==
    /\ view = <<>>
    /\ emptyShown \in BOOLEAN
    /\ badge \in {[BadgeFor(0, 0) EXCEPT !.disabled = d] : d \in BOOLEAN}
    /\ cartOpen = FALSE
    /\ profileOpen = FALSE
    /\ searchActive = FALSE
    /\ backdrop = FALSE
    /\ scrollLock = FALSE
    /\ modal = FALSE
    /\ timers = 0
    /\ loaded = FALSE
    /\ wired = FALSE
    /\ last = [op |-> "script", arg |-> "", malformed |-> FALSE,
               threw |-> FALSE, rendered |-> FALSE, saved |-> NotSaved]

\* the filter engine before the script's first handler
InitFilterState ==
    /\ sent = NotSent
    /\ filterState = InitialFilterState
    /\ display = [i \in 1..Len(cards) |-> TRUE]
    /\ foundCount = 0
    /\ message = NoMessage

\* the home page opened without a search parameter
InitHome ==
    /\ isHome = TRUE
    /\ param = NoParam
    /\ cards = LowerCards
    /\ InitFilterState

\* a first visit: nothing persisted yet
Init == store = Absent /\ InitPage /\ InitHome

Next ==
    \/ DOMContentLoaded
    \/ DoAddToCart
    \/ DoRemoveFromCart
    \/ DoDecrementQuantity
    \/ DoPlaceOrder
    \/ TimerFires
    \/ ProfileToggleClick
    \/ CartToggleClick
    \/ SearchToggleClick
    \/ BackdropClick
    \/ EscapeKey

Spec == Init /\ [][Next]_vars

\* ordering: adding, placing orders, the timers and the Escape key
NextLive ==
    \/ DOMContentLoaded
    \/ DoAddToCart
    \/ DoPlaceOrder
    \/ TimerFires
    \/ EscapeKey

\* the page stays loaded and every pending timer fires
SpecLive == Init /\ [][NextLive]_vars /\ WF_vars(TimerFires)

\* the cart operations over three products
NextOrder ==
    \/ DOMContentLoaded
    \/ DoAddOneOfThree
    \/ DoRemoveFromCart
    \/ DoDecrementQuantity
    \/ DoPlaceOrder
    \/ TimerFires

SpecOrder == Init /\ [][NextOrder]_vars

\* any page of the site, opened with or without a search parameter
InitFilter ==
    /\ store = Absent
    /\ InitPage
    /\ isHome \in BOOLEAN
    /\ param \in Params
    /\ cards \in {LowerCards, MixedCards}
    /\ InitFilterState

\* searching and filtering
NextFilter ==
    \/ DOMContentLoaded
    \/ DoPerformSearch
    \/ DoFilterByCategory
    \/ SearchToggleClick

SpecFilter == InitFilter /\ [][NextFilter]_vars

\* what the slot may hold when the page loads: nothing, the empty string,
\* text that is not JSON, or JSON text of another type than an array
Slot(kind) == [kind |-> kind, items |-> <<>>]
AnySlot ==
    {Absent, Slot("empty"), Slot("malformed"), Slot("null"), Slot("number"),
     Slot("object"), Slot("array")}

InitAnySlot == store \in AnySlot /\ InitPage /\ InitHome

SpecAnySlot == InitAnySlot /\ [][Next]_vars

-----------------------------------------------------------------------------
(* Properties *)

\* the line items getCart() returns in the current state
Cart == getCart(store).items

HasId(items, id) == \E i \in 1..Len(items) : items[i].id = id

CartOps == {"addToCart", "removeFromCart", "decrementQuantity", "placeOrder"}

\* C1: in every state reachable from an empty persisted cart, the persisted
\* cart holds at most one line item per product id.
C1_UniqueIds ==
    \A i, j \in 1..Len(Cart) : Cart[i].id = Cart[j].id => i = j

\* two products in the cart, one of them added twice, right after an add
C1_Witness ==
    /\ last.op = "addToCart"
    /\ Len(Cart) = 2
    /\ \E i \in 1..Len(Cart) : Cart[i].quantity = 2

\* C2: every line item of the persisted cart has quantity >= 1, and
\* decrementQuantity(id) on an item with quantity 1 removes the item.
C2_QuantityFloor ==
    /\ [](\A i \in 1..Len(Cart) : Cart[i].quantity >= 1)
    /\ [][(/\ last'.op = "decrementQuantity"
           /\ \E i \in 1..Len(Cart) :
                Cart[i].id = last'.arg /\ Cart[i].quantity = 1)
          => ~HasId(Cart', last'.arg)]_vars

\* decrementQuantity has just saved a cart from which its item is gone
C2_Witness ==
    /\ last.op = "decrementQuantity"
    /\ last.saved.called
    /\ ~HasId(Cart, last.arg)
    /\ Cart # <<>>

\* C3: addToCart with valid data for an id in the cart raises that item's
\* quantity by exactly 1 and changes nothing else of the cart; for an id not
\* in the cart it appends one line item with quantity 1.
C3_AddIsAdditive ==
    [][(last'.op = "addToCart" /\ ~last'.malformed) =>
        LET id == last'.arg
            old == Cart
            new == Cart'
        IN  IF HasId(old, id)
            THEN /\ Len(new) = Len(old)
                 /\ \A i \in 1..Len(old) :
                        new[i] = IF old[i].id = id
                                 THEN [old[i] EXCEPT !.quantity = @ + 1]
                                 ELSE old[i]
            ELSE /\ Len(new) = Len(old) + 1
                 /\ \A i \in 1..Len(old) : new[i] = old[i]
                 /\ new[Len(new)].id = id
                 /\ new[Len(new)].quantity = 1]_vars

\* the same id added twice to an empty cart: one line item with quantity 2
C3_Witness ==
    /\ last.op = "addToCart"
    /\ ~last.malformed
    /\ Len(Cart) = 1
    /\ Cart[1].quantity = 2

\* C4: addToCart with an empty or missing id, an empty or missing name, or a
\* price that parses to NaN leaves the persisted cart unchanged, renders
\* nothing, does not open the cart drawer and throws nothing.
C4_MalformedAddRejected ==
    [][(last'.op = "addToCart" /\ last'.malformed) =>
        /\ UNCHANGED <<store, view, emptyShown, badge, cartOpen, backdrop,
                       scrollLock>>
        /\ ~last'.rendered
        /\ ~last'.saved.called
        /\ ~last'.threw]_vars

\* a malformed add for an id that is in the cart has run, with the drawer
\* closed
C4_Witness ==
    /\ last.op = "addToCart"
    /\ last.malformed
    /\ HasId(Cart, last.arg)
    /\ ~cartOpen

\* C5: every line item of every reachable persisted cart has price >= 0.
C5_PricesNonNegative ==
    \A i \in 1..Len(Cart) : Cart[i].price.k = "num" => Cart[i].price.v >= 0

\* a fresh handler run on the state another one left
Again(E) == [E EXCEPT !.threw = FALSE, !.rendered = FALSE, !.saved = NotSaved]

\* C6: removeFromCart(id) twice in a row leaves the persisted cart as once
\* does; for an id not in the cart the line items are unchanged; after the
\* call no line item with that id remains.
C6_RemoveIdempotent ==
    /\ last.op = "removeFromCart" => ~HasId(Cart, last.arg)
    /\ \A id \in Ids :
        LET once == removeFromCart(Env, id)
            twice == removeFromCart(Again(once), id)
        IN  /\ twice.store = once.store
            /\ ~HasId(Cart, id) => getCart(once.store).items = Cart
            /\ ~HasId(getCart(once.store).items, id)

\* removeFromCart("w1") has run and left "w2" with quantity 2 in the cart
C6_Witness ==
    /\ last.op = "removeFromCart"
    /\ last.arg = "w1"
    /\ \E i \in 1..Len(Cart) : Cart[i].id = "w2" /\ Cart[i].quantity = 2

\* C7: placeOrder on a non-empty cart clears the persisted cart, so that
\* getCart() returns an empty sequence, and shows the acknowledgment; on an
\* empty cart it changes nothing and schedules no timer.
C7_PlaceOrderClears ==
    [][last'.op = "placeOrder" =>
        IF Cart # <<>>
        THEN /\ getCart(store').t = "array"
             /\ Cart' = <<>>
             /\ modal'
        ELSE /\ UNCHANGED <<store, view, emptyShown, badge, cartOpen,
                            profileOpen, searchActive, backdrop, scrollLock,
                            modal, timers>>
             /\ ~last'.threw]_vars

\* placeOrder has just cleared a cart and shown the acknowledgment
C7_Witness ==
    /\ last.op = "placeOrder"
    /\ store = Absent
    /\ modal
    /\ timers = 1
    /\ ~cartOpen

\* C8: whatever the slot holds when the page loads, getCart() returns a
\* sequence of line items and no callback that has run threw.
C8_AnySlotIsACart ==
    loaded => /\ getCart(store).t = "array"
              /\ ~last.threw

\* C9: saveCart(cart) followed by getCart() returns a cart equal to the one
\* saved, for every cart addToCart saves.
C9_RoundTrip ==
    (last.op = "addToCart" /\ last.saved.called) => Cart = last.saved.cart

RECURSIVE QuantityUpTo(_, _), AmountUpTo(_, _)
\* the sum of the quantities of items 1..n
QuantityUpTo(items, n) ==
    IF n = 0 THEN 0 ELSE QuantityUpTo(items, n - 1) + items[n].quantity
\* the sum of price * quantity over items 1..n, in hundredths
AmountUpTo(items, n) ==
    IF n = 0 THEN 0
    ELSE AmountUpTo(items, n - 1)
         + (IF items[n].price.k = "num"
            THEN items[n].price.v * items[n].quantity ELSE 0)

\* C10: after every cart operation the badge's item count is the sum of the
\* quantities in the persisted cart, the subtotal the sum of price * quantity,
\* and the checkout button is disabled exactly when the count is 0.
C10_TotalsMatchCart ==
    last.op \in CartOps =>
        /\ badge.totalItems = QuantityUpTo(Cart, Len(Cart))
        /\ badge.subtotal = AmountUpTo(Cart, Len(Cart))
        /\ badge.disabled <=> (QuantityUpTo(Cart, Len(Cart)) = 0)


\* the ids of the line items, in order
IdsOf(items) == [i \in 1..Len(items) |-> items[i].id]

\* the ids of ids that also occur in among, in the order of ids
Kept(ids, among) ==
    SelectSeq(ids, LAMBDA x : \E j \in 1..Len(among) : among[j] = x)

\* C11: the persisted cart keeps the line items in first-added order: no step
\* changes the relative order of the items that stay, and an item that was
\* not in the cart before the step (added, or added again after its removal)
\* is the last one after it.
C11_FirstAddedOrder ==
    [][LET old == IdsOf(Cart)
           new == IdsOf(Cart')
       IN  /\ Kept(new, old) = Kept(old, new)
           /\ \A i \in 1..Len(new) :
                (\A j \in 1..Len(old) : old[j] # new[i]) => i = Len(new)]_vars

\* three line items with "w1", the product added last, at the end, behind an
\* item that was incremented after it was added
C11_Witness ==
    /\ last.op = "addToCart"
    /\ last.arg = "w1"
    /\ IdsOf(Cart) \in {<<"w2", "w3", "w1">>, <<"w3", "w2", "w1">>}
    /\ Cart[1].quantity = 2
    /\ Cart[3].quantity = 1

\* applyFilters ran in the callback that ran last
FiltersApplied == last.arg = "applied"

\* C12: after applyFilters runs, a card is visible iff (the category is "all"
\* or equals the card's category) and (the query is empty or a substring of
\* the card's title, keywords or category), and the count is the number of
\* visible cards; a category click keeps the stored query and a search on the
\* page keeps the stored category.
C12_ConjunctiveFilter ==
    [][/\ last'.arg = "applied" =>
            /\ \A i \in 1..Len(cards') :
                 display'[i] <=>
                     /\ \/ filterState'.category = All
                        \/ cards'[i].category = filterState'.category
                     /\ \/ filterState'.searchQuery = <<>>
                        \/ includes(cards'[i].title, filterState'.searchQuery)
                        \/ includes(cards'[i].keywords, filterState'.searchQuery)
                        \/ includes(cards'[i].category, filterState'.searchQuery)
            /\ foundCount' = Cardinality({i \in 1..Len(cards') : display'[i]})
       /\ last'.op = "filterByCategory" =>
            filterState'.searchQuery = filterState.searchQuery
       /\ (last'.op = "performSearch" /\ last'.arg # "navigated") =>
            filterState'.category = filterState.category]_vars

\* a search on the home page while a category is selected: the card of the
\* category that holds the query is shown, the other hidden
C12_Witness ==
    /\ last.op = "performSearch"
    /\ FiltersApplied
    /\ filterState = [searchQuery |-> <<"a", "u">>, category |-> <<"d", "r", "e", "s", "s">>]
    /\ display = <<FALSE, TRUE>>
    /\ foundCount = 1

\* the test of C12 with every text lower-cased first
FoldedMatch(card, fs) ==
    /\ \/ toLowerCase(fs.category) = All
       \/ toLowerCase(card.category) = toLowerCase(fs.category)
    /\ \/ fs.searchQuery = <<>>
       \/ includes(toLowerCase(card.title), toLowerCase(fs.searchQuery))
       \/ includes(toLowerCase(card.keywords), toLowerCase(fs.searchQuery))
       \/ includes(toLowerCase(card.category), toLowerCase(fs.searchQuery))

\* C13: matching is case-insensitive: after applyFilters runs, a card is
\* visible iff it matches with the letter case of its title, keywords and
\* category, and of the query and the category, ignored.
C13_CaseInsensitive ==
    FiltersApplied => \A i \in 1..Len(cards) :
                          display[i] <=> FoldedMatch(cards[i], filterState)

\* C14: the stored query is lower-case and trimmed and the stored category is
\* lower-case, whichever path stored them.
C14_StoredFolded ==
    /\ filterState.searchQuery = trim(toLowerCase(filterState.searchQuery))
    /\ filterState.category = toLowerCase(filterState.category)

\* the template the summary belongs to, by which of query and category are set
TemplateOf(fs) ==
    IF fs.searchQuery # <<>> /\ fs.category = All THEN "query"
    ELSE IF fs.searchQuery = <<>> /\ fs.category # All THEN "category"
    ELSE IF fs.searchQuery # <<>> THEN "both"
    ELSE "none"

\* C15: after applyFilters runs, the summary is of the one template that the
\* query and the category select, and it is the "no results" variant of that
\* template when the count is 0.
C15_SummaryTemplates ==
    FiltersApplied =>
        /\ message.template = TemplateOf(filterState)
        /\ foundCount = 0 => message.noResults

\* C16: when the home page loads after performSearch navigated to it with the
\* query q, checkUrlForSearchQuery does not throw, stores exactly q and
\* applies the filters.
C16_NavigatedQueryApplied ==
    (sent.by /\ last.op = "DOMContentLoaded") =>
        /\ ~last.threw
        /\ FiltersApplied
        /\ filterState.searchQuery = sent.q

\* C19: at most one of the profile drawer, the cart drawer and the search bar
\* is open, and the backdrop is visible and page scrolling locked exactly
\* when the profile drawer or the cart drawer is open.
C19_OneOverlay ==
    /\ ~(profileOpen /\ cartOpen)
    /\ ~(profileOpen /\ searchActive)
    /\ ~(cartOpen /\ searchActive)
    /\ backdrop <=> (profileOpen \/ cartOpen)
    /\ scrollLock <=> (profileOpen \/ cartOpen)

\* the profile drawer opened over the cart drawer, which an add had opened:
\* the cart drawer is closed and the backdrop stays
C19_Witness ==
    /\ last.op = "toggleProfileDrawer"
    /\ profileOpen
    /\ ~cartOpen
    /\ backdrop
    /\ scrollLock
    /\ view # <<>>
    /\ Cart # <<>>

\* the id and the quantity of each row or line item, in order
Shown(rows) == [i \in 1..Len(rows) |-> <<rows[i].id, rows[i].quantity>>]

\* C18: whenever the cart drawer is open, the rows of the cart view show the
\* ids and quantities of the persisted cart, the badge counts its quantities
\* and the checkout button is disabled exactly when it is empty.
C18_OpenDrawerShowsCart ==
    cartOpen =>
        /\ Shown(view) = Shown(Cart)
        /\ badge.totalItems = QuantityUpTo(Cart, Len(Cart))
        /\ badge.disabled <=> (Cart = <<>>)

\* C17: an order acknowledgment that is shown is eventually hidden (by its
\* timer, if nothing hides it before).
C17_AcknowledgmentHidden == modal ~> ~modal

\* the last pending timer has fired and the acknowledgment is hidden
C17_Witness ==
    /\ last.op = "timer"
    /\ ~modal
    /\ timers = 0
    /\ store = Absent

\* C20: a timer that fires while a later order's timer is still pending does
\* not hide the acknowledgment it finds shown, which is the later order's.
C20_OwnTimerHides ==
    [][(last'.op = "timer" /\ timers > 1 /\ modal) => modal']_vars

====
